---- MODULE Spec2Model ----
(***************************************************************************)
(* DateTimeDefaultNow<Tz, OFFSET_HOURS> (src/src/datetime_default_now.rs): *)
(* a wrapper around chrono's DateTime<Tz> whose Default is "now".          *)
(*                                                                         *)
(* A DateTime<Tz> is modelled as chrono stores it: the UTC instant         *)
(* (seconds since the epoch and nanoseconds) and the zone offset in        *)
(* seconds east of UTC.  The build (cfg(test) or not, overflow checks on   *)
(* or off) and the process's local-zone offset are chosen at Init and      *)
(* never change.  The local zone has one offset per process (no DST        *)
(* transition inside the few ticks a behaviour covers).                    *)
(***************************************************************************)
EXTENDS Integers, Sequences, FiniteSets, TLC

VARIABLES
    cfgTest,         \* TRUE: built with cfg(test) (lines 40, 56); FALSE: lines 35, 51
    overflowChecks,  \* TRUE: i32 overflow panics (debug profile); FALSE: it wraps (release)
    localOff,        \* the offset chrono's Local zone gives this process, seconds east
    clock,           \* the system clock, an instant
    byDefault,       \* the wrapper the caller got from default(), if any
    byFrom,          \* the wrapper the caller got from from()/into(), if any
    raw,             \* the raw DateTime<Tz> the caller holds, and where it came from
    last,            \* the last step: the operation, its result, its reads of the system clock
    outcome          \* "running", or "panicked" once a call has panicked

vars == <<cfgTest, overflowChecks, localOff, clock, byDefault, byFrom, raw, last, outcome>>

(***************************************************************************)
(* Bounds of the model.                                                    *)
(***************************************************************************)
MaxTicks == 2

(***************************************************************************)
(* Instants and chrono's arithmetic on them.                               *)
(***************************************************************************)
NanosPerSec == 10^9

SecsPerDay == 24 * 3600

TickNanos == NanosPerSec \div 2

Instant(s, n) == [secs |-> s, nanos |-> n]

AddNanos(t, n) ==
    LET total == t.nanos + n
    IN  Instant(t.secs + (total \div NanosPerSec), total % NanosPerSec)

SubSecs(t, s) == Instant(t.secs - s, t.nanos)

InstantLess(a, b) ==
    \/ a.secs < b.secs
    \/ a.secs = b.secs /\ a.nanos < b.nanos

\* The text "2022/10/10 23:40:11.695164300" under "%Y/%m/%d %H:%M:%S%.9f":
\* the fields the format extracts.
NOW ==
    [year |-> 2022, month |-> 10, day |-> 10,
     hour |-> 23, minute |-> 40, second |-> 11, nano |-> 695164300]

\* The same text, written out a second time in the Local default (line 44).
LOCAL_NOW ==
    [year |-> 2022, month |-> 10, day |-> 10,
     hour |-> 23, minute |-> 40, second |-> 11, nano |-> 695164300]

\* Days from 1970-01-01 to the civil date y/m/d (proleptic Gregorian).
DaysFromCivil(y, m, d) ==
    LET yy  == IF m <= 2 THEN y - 1 ELSE y
        era == yy \div 400
        yoe == yy - era * 400
        mp  == IF m > 2 THEN m - 3 ELSE m + 9
        doy == ((153 * mp + 2) \div 5) + d - 1
        doe == yoe * 365 + (yoe \div 4) - (yoe \div 100) + doy
    IN  era * 146097 + doe - 719468

\* The parsed fields as a NaiveDateTime: a civil time with no zone, counted
\* as if it were UTC.
NaiveFromFields(f) ==
    Instant(DaysFromCivil(f.year, f.month, f.day) * SecsPerDay
                + f.hour * 3600 + f.minute * 60 + f.second,
            f.nano)

\* TimeZone::datetime_from_str: the civil time is read as a time OF THE ZONE,
\* so the instant is the civil time minus the zone's offset.
DatetimeFromStr(zoneOff, fields) ==
    [utc |-> SubSecs(NaiveFromFields(fields), zoneOff), off |-> zoneOff]

\* Utc::now() and Local::now(): the system clock's instant, in the zone.
UtcNow == [utc |-> clock, off |-> 0]

LocalNow == [utc |-> clock, off |-> localOff]

\* DateTime::with_timezone: the same instant under another offset.
WithTimezone(dt, zoneOff) == [utc |-> dt.utc, off |-> zoneOff]

\* FixedOffset::east(secs): panics unless -86400 < secs < 86400.
FixedOffsetEast(secs) ==
    IF -SecsPerDay < secs /\ secs < SecsPerDay
    THEN [ok |-> TRUE, off |-> secs]
    ELSE [ok |-> FALSE, off |-> 0]

\* DateTime's PartialEq and PartialOrd compare the instants, never the offsets.
DateTimeEq(a, b) == a.utc = b.utc

DateTimeCmp(a, b) ==
    IF InstantLess(a.utc, b.utc) THEN "Less"
    ELSE IF InstantLess(b.utc, a.utc) THEN "Greater"
    ELSE "Equal"

\* a <= b as Rust derives it from partial_cmp.
Le(ord) == ord \in {"Less", "Equal"}

(***************************************************************************)
(* i32 arithmetic of OFFSET_HOURS * 3600 (line 29).  The product is        *)
(* computed on 16-bit halves so that no intermediate value leaves 32 bits. *)
(***************************************************************************)
Half == 65536

I32Max == 2147483647

I32Min == -I32Max - 1

Lo16(x) == x % Half

Hi16(x) == ((x - Lo16(x)) \div Half) % Half

\* a * b modulo 2^32, as a signed 32-bit value; b is in 0..32767.
WrappingMul(a, b) ==
    LET p   == Lo16(a) * b
        lo  == p % Half
        hi  == (Hi16(a) * b + (p \div Half)) % Half
    IN  IF hi >= Half \div 2 THEN (hi - Half) * Half + lo ELSE hi * Half + lo

\* The product overflowed i32 iff the wrapped value is not a * b.
MulOverflows(a, b) ==
    LET w == WrappingMul(a, b)
    IN  ~(w % b = 0 /\ w \div b = a)

(***************************************************************************)
(* The wrapper: struct DateTimeDefaultNow<Tz, const OFFSET_HOURS: i32 = 0> *)
(* (DateTime<Tz>).  tz and H are the type parameters, dt is field .0.      *)
(***************************************************************************)
Zones == {"Utc", "Local", "FixedOffset"}

SecsPerHour == 3600

\* What a default() call did: the value built, the number of reads of the
\* system clock it made (Utc::now(), Local::now()), and whether it panicked
\* instead of returning.
Returned(dt, n) == [dt |-> dt, reads |-> n, panic |-> FALSE]

Panicked(dt, n) == [dt |-> dt, reads |-> n, panic |-> TRUE]

\* UtcDefault with a bug: the clock's sub-second part is dropped.
UtcDefaultTruncated ==
    IF cfgTest
    THEN Returned(DatetimeFromStr(0, NOW), 0)
    ELSE Returned([utc |-> Instant(clock.secs, 0), off |-> 0], 1)

\* impl Default for DateTimeDefaultNow<Utc, 0>: Utc::now(), or under
\* cfg(test) the literal NOW read as a UTC time (no clock is read).
UtcDefault ==
    IF cfgTest
    THEN Returned(DatetimeFromStr(0, NOW), 0)
    ELSE Returned(UtcNow, 1)

\* LocalDefault with a bug: the local civil time is taken for the instant.
LocalDefaultNaive ==
    IF cfgTest
    THEN Returned(DatetimeFromStr(localOff, LOCAL_NOW), 0)
    ELSE Returned([utc |-> SubSecs(clock, -localOff), off |-> localOff], 1)

\* impl Default for DateTimeDefaultNow<Local, 0>: Local::now(), or under
\* cfg(test) the literal read as a time of the local zone.
LocalDefault ==
    IF cfgTest
    THEN Returned(DatetimeFromStr(localOff, LOCAL_NOW), 0)
    ELSE Returned(LocalNow, 1)

\* FixedDefault with a bug: FixedOffset::west in place of FixedOffset::east.
FixedDefaultWest(H) ==
    LET u    == UtcDefault
        secs == WrappingMul(H, SecsPerHour)
        east == FixedOffsetEast(secs)
    IN  IF overflowChecks /\ MulOverflows(H, SecsPerHour)
        THEN Panicked(u.dt, u.reads)
        ELSE IF ~east.ok
        THEN Panicked(u.dt, u.reads)
        ELSE Returned(WithTimezone(u.dt, -east.off), u.reads)

\* FixedDefault with a bug: the clock is read a second time for the shift.
FixedDefaultRereads(H) ==
    LET u    == UtcDefault
        v    == UtcDefault
        secs == WrappingMul(H, SecsPerHour)
        east == FixedOffsetEast(secs)
    IN  IF overflowChecks /\ MulOverflows(H, SecsPerHour)
        THEN Panicked(u.dt, u.reads)
        ELSE IF ~east.ok
        THEN Panicked(u.dt, u.reads)
        ELSE Returned(WithTimezone(v.dt, east.off), u.reads + v.reads)

\* impl Default for DateTimeDefaultNow<FixedOffset, OFFSET_HOURS>: the UTC
\* default first (the receiver), then OFFSET_HOURS * 3600 in i32, then
\* FixedOffset::east, then with_timezone.
FixedDefault(H) ==
    LET u    == UtcDefault
        secs == WrappingMul(H, SecsPerHour)
        east == FixedOffsetEast(secs)
    IN  IF overflowChecks /\ MulOverflows(H, SecsPerHour)
        THEN Panicked(u.dt, u.reads)
        ELSE IF ~east.ok
        THEN Panicked(u.dt, u.reads)
        ELSE Returned(WithTimezone(u.dt, east.off), u.reads)

\* Deref::deref: &self.0
Deref(w) == w.dt

\* From with a bug: the value is stored normalised to offset zero.
FromNormalised(tz, H, datetime) ==
    [tz |-> tz, H |-> H, dt |-> WithTimezone(datetime, 0)]

\* From<DateTime<Tz>>::from: Self(datetime)
From(tz, H, datetime) == [tz |-> tz, H |-> H, dt |-> datetime]

\* PartialEq<DateTime<Tz>> for DateTimeDefaultNow: self.0.eq(other)
WrapperEqRaw(w, other) == DateTimeEq(w.dt, other)

\* RawEqWrapper with a bug: the offsets are compared as well as the instants.
RawEqWrapperStrict(self, other) == self = other.dt

\* PartialEq<DateTimeDefaultNow> for DateTime<Tz>: self.eq(&other.0)
RawEqWrapper(self, other) == DateTimeEq(self, other.dt)

\* #[derive(PartialEq)]: the fields .0 compared
WrapperEqWrapper(a, b) == DateTimeEq(a.dt, b.dt)

\* PartialOrd<DateTime<Tz>> for DateTimeDefaultNow: self.0.partial_cmp(other)
WrapperCmpRaw(w, other) == DateTimeCmp(w.dt, other)

\* RawCmpWrapper with a bug: the operands are swapped.
RawCmpWrapperFlipped(self, other) == DateTimeCmp(other.dt, self)

\* PartialOrd<DateTimeDefaultNow> for DateTime<Tz>: self.partial_cmp(&other.0)
RawCmpWrapper(self, other) == DateTimeCmp(self, other.dt)

\* #[derive(PartialOrd, Ord)]: the fields .0 compared
WrapperCmpWrapper(a, b) == DateTimeCmp(a.dt, b.dt)

(***************************************************************************)
(* The state machine: a caller that constructs wrappers, reads the clock   *)
(* and compares what it holds, while the system clock advances.  The       *)
(* caller keeps the wrapper it last got from default(), the wrapper it     *)
(* last got from from(), and one raw DateTime.                             *)
(***************************************************************************)
LocalOffsets == {-5 * SecsPerHour, 0, 9 * SecsPerHour}

\* OFFSET_HOURS instantiations: valid ones (9 is the test's, -23 the last
\* valid one), the first invalid ones, the spec's +-100, and values whose
\* product with 3600 leaves i32.
OffsetHoursParams ==
    {-100, -24, -23, 9, 24, 100, 596524, 268435456}

\* OFFSET_HOURS of a wrapper built by from(): a type tag only.
FromHours(tz) == IF tz = "FixedOffset" THEN {0, 9} ELSE {0}

\* What the system clock reads when the process starts: a time after the
\* literal NOW in every zone of LocalOffsets.
ClockStart ==
    NaiveFromFields([year |-> 2022, month |-> 10, day |-> 12,
                     hour |-> 0, minute |-> 0, second |-> 0, nano |-> 0])

ClockLimit == AddNanos(ClockStart, MaxTicks * TickNanos)

NoDateTime == [utc |-> Instant(0, 0), off |-> 0]

NoWrapper == [tz |-> "None", H |-> 0, dt |-> NoDateTime]

NoRaw == [tz |-> "None", dt |-> NoDateTime, src |-> "none"]

Op(name, res, H, n) == [op |-> name, res |-> res, H |-> H, reads |-> n]

Bool(b) == IF b THEN "true" ELSE "false"

Init ==
    /\ cfgTest \in BOOLEAN
    /\ overflowChecks \in BOOLEAN
    /\ localOff \in LocalOffsets
    /\ clock = ClockStart
    /\ byDefault = NoWrapper
    /\ byFrom = NoWrapper
    /\ raw = NoRaw
    /\ last = Op("init", "none", 0, 0)
    /\ outcome = "running"

\* The system clock advances.
Tick ==
    /\ outcome = "running"
    /\ InstantLess(clock, ClockLimit)
    /\ clock' = AddNanos(clock, TickNanos)
    /\ last' = Op("tick", "none", 0, 0)
    /\ UNCHANGED <<cfgTest, overflowChecks, localOff, byDefault, byFrom, raw, outcome>>

\* A default() call with result r for the type parameters tz, H.  A panic
\* ends the process: nothing the caller held outlives it.
DefaultCall(name, tz, H, r) ==
    /\ outcome = "running"
    /\ IF r.panic
       THEN /\ outcome' = "panicked"
            /\ last' = Op(name, "panic", H, r.reads)
            /\ byDefault' = NoWrapper
            /\ byFrom' = NoWrapper
            /\ raw' = NoRaw
       ELSE /\ outcome' = outcome
            /\ last' = Op(name, "ok", H, r.reads)
            /\ byDefault' = [tz |-> tz, H |-> H, dt |-> r.dt]
            /\ byFrom' = byFrom
            /\ raw' = raw
    /\ UNCHANGED <<cfgTest, overflowChecks, localOff, clock>>

DefaultUtc == DefaultCall("default_utc", "Utc", 0, UtcDefault)

DefaultLocal == DefaultCall("default_local", "Local", 0, LocalDefault)

DefaultFixed ==
    \E H \in OffsetHoursParams :
        DefaultCall("default_fixed", "FixedOffset", H, FixedDefault(H))

\* The caller reads the clock itself: Utc::now() or Local::now() (tests).
ReadNow ==
    /\ outcome = "running"
    /\ \E tz \in {"Utc", "Local"} :
          raw' = [tz |-> tz, dt |-> IF tz = "Utc" THEN UtcNow ELSE LocalNow, src |-> "now"]
    /\ last' = Op("now", "ok", 0, 1)
    /\ UNCHANGED <<cfgTest, overflowChecks, localOff, clock, byDefault, byFrom, outcome>>

\* FromCall with a bug: from() stamps the value with the clock it reads.
FromCallReadsClock ==
    /\ outcome = "running"
    /\ raw.tz \in Zones
    /\ \E H \in FromHours(raw.tz) :
          byFrom' = From(raw.tz, H, [utc |-> clock, off |-> raw.dt.off])
    /\ last' = Op("from", "ok", 0, 1)
    /\ UNCHANGED <<cfgTest, overflowChecks, localOff, clock, byDefault, raw, outcome>>

\* from(datetime) / datetime.into() on the raw value the caller holds.
FromCall ==
    /\ outcome = "running"
    /\ raw.tz \in Zones
    /\ \E H \in FromHours(raw.tz) : byFrom' = From(raw.tz, H, raw.dt)
    /\ last' = Op("from", "ok", 0, 0)
    /\ UNCHANGED <<cfgTest, overflowChecks, localOff, clock, byDefault, raw, outcome>>

\* *x: the wrapped value read through deref and kept by the caller.
DerefCall ==
    /\ outcome = "running"
    /\ \E x \in {byDefault, byFrom} :
          /\ x.tz \in Zones
          /\ raw' = [tz |-> x.tz, dt |-> Deref(x), src |-> "deref"]
    /\ last' = Op("deref", "ok", 0, 0)
    /\ UNCHANGED <<cfgTest, overflowChecks, localOff, clock, byDefault, byFrom, outcome>>

\* Two wrappers of one type: the same Tz and the same OFFSET_HOURS.
SameType(a, b) == a.tz \in Zones /\ a.tz = b.tz /\ a.H = b.H

\* x == raw, raw == x, byDefault == byFrom on values of one zone type.
EqCall ==
    /\ outcome = "running"
    /\ \/ \E x \in {byDefault, byFrom} :
             /\ x.tz \in Zones /\ x.tz = raw.tz
             /\ \/ last' = Op("eq", Bool(WrapperEqRaw(x, raw.dt)), 0, 0)
                \/ last' = Op("eq", Bool(RawEqWrapper(raw.dt, x)), 0, 0)
       \/ /\ SameType(byDefault, byFrom)
          /\ last' = Op("eq", Bool(WrapperEqWrapper(byDefault, byFrom)), 0, 0)
    /\ UNCHANGED <<cfgTest, overflowChecks, localOff, clock, byDefault, byFrom, raw, outcome>>

\* x.partial_cmp(raw), raw.partial_cmp(x), byDefault.partial_cmp(byFrom) on
\* values of one zone type.
CmpCall ==
    /\ outcome = "running"
    /\ \/ \E x \in {byDefault, byFrom} :
             /\ x.tz \in Zones /\ x.tz = raw.tz
             /\ \/ last' = Op("partial_cmp", WrapperCmpRaw(x, raw.dt), 0, 0)
                \/ last' = Op("partial_cmp", RawCmpWrapper(raw.dt, x), 0, 0)
       \/ /\ SameType(byDefault, byFrom)
          /\ last' = Op("partial_cmp", WrapperCmpWrapper(byDefault, byFrom), 0, 0)
    /\ UNCHANGED <<cfgTest, overflowChecks, localOff, clock, byDefault, byFrom, raw, outcome>>

Next ==
    \/ Tick
    \/ DefaultUtc
    \/ DefaultLocal
    \/ DefaultFixed
    \/ ReadNow
    \/ FromCall
    \/ DerefCall
    \/ EqCall
    \/ CmpCall

Spec == Init /\ [][Next]_vars

(***************************************************************************)
(* Properties.                                                             *)
(***************************************************************************)
DefaultOps == {"default_utc", "default_local", "default_fixed"}

PureOps == {"from", "deref", "eq", "partial_cmp"}

Held == {x \in {byDefault, byFrom} : x.tz \in Zones}

\* 2022-10-10T23:40:11.6951643Z as seconds since the epoch and nanoseconds.
TestClockInstant == Instant(1665445211, 695164300)

\* H * 3600 lies strictly between -86400 and 86400.
InRangeHours(H) == -24 < H /\ H < 24

Reverse(ord) ==
    IF ord = "Less" THEN "Greater" ELSE IF ord = "Greater" THEN "Less" ELSE ord

\* C1: right after DateTimeDefaultNow::<Utc>::default() returns, the wrapper
\* holds exactly the instant the clock reads (the fixed test clock
\* 2022-10-10T23:40:11.6951643Z under cfg(test)), at offset zero.
C1_UtcDefaultIsClock ==
    last.op = "default_utc" =>
        /\ last.res = "ok"
        /\ byDefault.tz = "Utc" /\ byDefault.H = 0
        /\ byDefault.dt.off = 0
        /\ byDefault.dt.utc = IF cfgTest THEN TestClockInstant ELSE clock

C1_Witness ==
    /\ last.op = "default_utc"
    /\ ~cfgTest
    /\ byDefault.dt.utc = AddNanos(ClockStart, TickNanos)

\* C2: for a valid OFFSET_HOURS H, the fixed-offset default returns, denotes
\* the instant of the UTC default taken at the same clock value, and its
\* offset is H * 3600 seconds east.
C2_FixedDefaultSameInstant ==
    (last.op = "default_fixed" /\ InRangeHours(last.H)) =>
        /\ last.res = "ok"
        /\ byDefault.tz = "FixedOffset" /\ byDefault.H = last.H
        /\ byDefault.dt.utc = UtcDefault.dt.utc
        /\ byDefault.dt.off = last.H * 3600

C2_Witness ==
    /\ last.op = "default_fixed" /\ last.H = 9 /\ last.res = "ok"
    /\ byDefault.dt.off = 32400
    /\ ~cfgTest
    /\ InstantLess(ClockStart, byDefault.dt.utc)

\* C3 (as claimed): with the fixed test clock, the Local default is the same
\* absolute instant as the UTC default, expressed at the local offset,
\* whatever the local offset is.
C3_LocalDefaultSameInstant ==
    (cfgTest /\ last.op = "default_local") =>
        /\ last.res = "ok"
        /\ byDefault.dt.utc = UtcDefault.dt.utc
        /\ byDefault.dt.off = localOff

\* C4 (as claimed): a fixed-offset default whose H * 3600 is outside the
\* valid offset range ends in a panic and never returns a wrapper.
C4_OutOfRangePanics ==
    (last.op = "default_fixed" /\ ~InRangeHours(last.H)) =>
        /\ last.res = "panic"
        /\ outcome = "panicked"

\* C5: right after from(x), reading the wrapped value back through deref
\* gives x itself (instant and offset), in the zone type of x.
C5_FromDerefRoundTrip ==
    last.op = "from" =>
        /\ byFrom.tz = raw.tz
        /\ Deref(byFrom) = raw.dt
        /\ DateTimeEq(Deref(byFrom), raw.dt)

C5_Witness ==
    /\ last.op = "from"
    /\ raw.tz = "FixedOffset"
    /\ raw.dt.off = 32400
    /\ byFrom.H = 9

\* C6: for a wrapper w and a raw t of one zone, w == t, t == w and
\* wrapped(w) == t agree; from(t) == t and t == from(t) hold.
C6_EqSymmetric ==
    /\ \A x \in Held :
          x.tz = raw.tz =>
              /\ WrapperEqRaw(x, raw.dt) = RawEqWrapper(raw.dt, x)
              /\ WrapperEqRaw(x, raw.dt) = DateTimeEq(Deref(x), raw.dt)
    /\ raw.tz \in Zones =>
          \A H \in FromHours(raw.tz) :
              /\ WrapperEqRaw(From(raw.tz, H, raw.dt), raw.dt)
              /\ RawEqWrapper(raw.dt, From(raw.tz, H, raw.dt))

C6_Witness ==
    /\ last.op = "eq" /\ last.res = "false"
    /\ \E x \in Held : x.tz = raw.tz /\ ~WrapperEqRaw(x, raw.dt)

\* C7: wrapper-raw, raw-wrapper and wrapper-wrapper comparisons give the
\* result of comparing the underlying raw timestamps, so a <= b through the
\* wrapper holds exactly when it holds on the raw values.
C7_OrderingConsistent ==
    /\ \A x \in Held :
          x.tz = raw.tz =>
              /\ WrapperCmpRaw(x, raw.dt) = DateTimeCmp(Deref(x), raw.dt)
              /\ RawCmpWrapper(raw.dt, x) = DateTimeCmp(raw.dt, Deref(x))
              /\ RawCmpWrapper(raw.dt, x) = Reverse(WrapperCmpRaw(x, raw.dt))
              /\ Le(WrapperCmpRaw(x, raw.dt)) = ~InstantLess(raw.dt.utc, x.dt.utc)
              /\ Le(RawCmpWrapper(raw.dt, x)) = ~InstantLess(x.dt.utc, raw.dt.utc)
    /\ SameType(byDefault, byFrom) =>
          /\ WrapperCmpWrapper(byDefault, byFrom)
                = DateTimeCmp(Deref(byDefault), Deref(byFrom))
          /\ WrapperCmpWrapper(byFrom, byDefault)
                = Reverse(WrapperCmpWrapper(byDefault, byFrom))
          /\ Le(WrapperCmpWrapper(byDefault, byFrom))
                = ~InstantLess(byFrom.dt.utc, byDefault.dt.utc)

C7_Witness ==
    /\ last.op = "partial_cmp" /\ last.res = "Greater"
    /\ SameType(byDefault, byFrom)
    /\ WrapperCmpWrapper(byDefault, byFrom) = "Less"
    /\ raw.tz = byDefault.tz
    /\ RawCmpWrapper(raw.dt, byDefault) = "Greater"

\* C8: from, deref, equality and ordering make no clock read, never panic
\* and leave every wrapper that exists unchanged; a clock advance or a raw
\* clock reading leaves the wrappers unchanged too.
C8_PureOpsFrame ==
    [][ /\ last'.op \in PureOps =>
              /\ last'.reads = 0
              /\ outcome' = "running"
              /\ clock' = clock
              /\ byDefault' = byDefault
              /\ (last'.op # "from" => byFrom' = byFrom)
        /\ last'.op \in {"tick", "now"} =>
              /\ byDefault' = byDefault
              /\ byFrom' = byFrom
      ]_vars

C8_Witness ==
    /\ last.op \in PureOps
    /\ ~cfgTest
    /\ byDefault.tz = "Utc" /\ byDefault.dt.utc = ClockStart
    /\ byFrom.tz = "Local" /\ byFrom.dt.utc = AddNanos(ClockStart, TickNanos)
    /\ clock = ClockLimit

\* The literal of the Local default as the instant it denotes in this process.
LocalTestInstant == SubSecs(TestClockInstant, localOff)

\* C9 (as claimed): every default() call, of every zone variant, makes
\* exactly one read of the clock and returns the clock's value at that
\* call, so that calls at different clock values return different values.
C9_OneClockReadPerDefault ==
    last.op \in DefaultOps =>
        /\ last.reads = 1
        /\ last.res = "ok" => byDefault.dt.utc = clock

\* C9 (amended): in a build without cfg(test) the claim holds as stated;
\* under cfg(test) default() reads no clock and returns the fixed literal,
\* whatever the clock reads.
C9_OneClockReadPerDefaultNonTest ==
    last.op \in DefaultOps =>
        /\ last.reads = IF cfgTest THEN 0 ELSE 1
        /\ last.res = "ok" =>
              byDefault.dt.utc =
                  IF ~cfgTest THEN clock
                  ELSE IF last.op = "default_local" THEN LocalTestInstant
                  ELSE TestClockInstant

C9_Witness ==
    /\ last.op = "default_fixed" /\ last.res = "ok"
    /\ ~cfgTest
    /\ clock = ClockLimit

\* C10 (as claimed): the Local default is <= every raw Local::now() reading
\* taken after it, and every raw timestamp not later than the clock at the
\* call is <= the default it returns.
C10_DefaultBetweenReadings ==
    /\ (last.op = "now" /\ raw.tz = "Local" /\ byDefault.tz = "Local") =>
          Le(WrapperCmpRaw(byDefault, raw.dt))
    /\ (last.op = "default_local" /\ raw.tz = "Local"
            /\ ~InstantLess(clock, raw.dt.utc)) =>
          Le(RawCmpWrapper(raw.dt, byDefault))

\* C10 (amended): in a build without cfg(test) the claim holds as stated;
\* under cfg(test) the Local default is the fixed literal read as local
\* civil time whatever the clock reads, so it is <= a raw timestamp exactly
\* when that literal's instant is.
C10_DefaultBetweenReadingsNonTest ==
    /\ ~cfgTest => C10_DefaultBetweenReadings
    /\ (cfgTest /\ raw.tz = "Local" /\ byDefault.tz = "Local") =>
          /\ Le(WrapperCmpRaw(byDefault, raw.dt))
                = ~InstantLess(raw.dt.utc, LocalTestInstant)
          /\ Le(RawCmpWrapper(raw.dt, byDefault))
                = ~InstantLess(LocalTestInstant, raw.dt.utc)

C10_Witness ==
    /\ ~cfgTest
    /\ last.op = "now" /\ raw.tz = "Local" /\ byDefault.tz = "Local"
    /\ WrapperCmpRaw(byDefault, raw.dt) = "Less"

====
